---- MODULE Spec2Model ----
(***************************************************************************)
(* A model of SceneManager (CS 330 final Project/Source/SceneManager.cpp): *)
(* the texture table, the material list, the shader uniforms the render    *)
(* state setters push, the model-matrix composition, and the PrepareScene  *)
(* / RenderScene programs.                                                 *)
(*                                                                         *)
(* Numbers.  Lengths, scales and matrix entries are fixed point with unit  *)
(* 1/FP; colours are in units of 1/100; angles are whole degrees.  A GL    *)
(* texture name is a positive integer.  Slot indices are 0-based as in the *)
(* source; the TLA+ sequences that hold the arrays are 1-based.            *)
(***************************************************************************)
EXTENDS Integers, Sequences, FiniteSets, TLC

VARIABLES
    m_pShaderManager,   \* "NULL" or "shader": the pointer given to the constructor
    m_textureIDs,       \* the entries written so far: <<[tag, ID], ...>>
    m_loadedTextures,   \* the entry counter
    m_objectMaterials,  \* std::vector<OBJECT_MATERIAL>
    shader,             \* the uniforms held by the shader program
    glTextures,         \* GL texture names generated and not deleted
    glUnits,            \* texture unit i -> name bound to it, at glUnits[i+1] (0 = none)
    glActive,           \* the active texture unit
    meshes,             \* primitive kind -> number of uploads
    overrun,            \* memory past m_textureIDs[MaxTextureSlots-1] was written
    crashed,            \* the process died on undefined behaviour
    phase,              \* which program the scene driver is in
    pc,                 \* next statement of that program (1-based)
    failed,             \* image files that did not load so far (bounded input)
    ret,                \* the last call: operation, argument, result, pushes
    drawn,              \* the uniforms the latest draw call saw
    touched,            \* render-state fields whose setter ran since the latest draw
    draws               \* number of draw calls so far, counted up to 1

vars == <<m_pShaderManager, m_textureIDs, m_loadedTextures, m_objectMaterials,
          shader, glTextures, glUnits, glActive, meshes, overrun, crashed, phase, pc,
          failed, ret, drawn, touched, draws>>

----------------------------------------------------------------------------
(* Bounds of the model *)

\* GL texture names one run may generate
MaxTextureNames == 2
\* image files that may fail to load in one run
MaxFailedLoads == 2
\* CreateGLTexture calls the texture harness makes
MaxTexCalls == 3
\* entries of the tables the lookup harness starts from
MaxEntries == 3

(* Program constants *)

\* "There are up to 16 slots": the size of m_textureIDs
MaxTextureSlots == 16
\* the unit of the fixed-point numbers that stand for the source's floats
FP == 1000

texVars == <<m_textureIDs, m_loadedTextures, overrun>>
glVars == <<glTextures, glUnits, glActive>>
drawVars == <<drawn, draws>>
ctlVars == <<phase, pc, failed>>

----------------------------------------------------------------------------
(* Values *)

Max(a, b) == IF a >= b THEN a ELSE b

\* glm::vec3 / glm::vec4 / glm::vec2 with every component x
Vec3(x) == <<x, x, x>>

\* OBJECT_MATERIAL without its tag: what SetShaderMaterial pushes
MaterialProps(m) ==
    [diffuseColor |-> m.diffuseColor, specularColor |-> m.specularColor,
     shininess |-> m.shininess]

\* the seven materials of DefineObjectMaterials, in push_back order
SceneMaterials ==
    << [tag |-> "Candle", diffuseColor |-> <<1000, 850, 500>>,
        specularColor |-> <<200, 200, 200>>, shininess |-> 4000],
       [tag |-> "Balloon", diffuseColor |-> <<400, 100, 600>>,
        specularColor |-> <<300, 200, 500>>, shininess |-> 16000],
       [tag |-> "WrappingPaper", diffuseColor |-> <<700, 0, 0>>,
        specularColor |-> <<1000, 900, 300>>, shininess |-> 64000],
       [tag |-> "Wood", diffuseColor |-> <<400, 250, 100>>,
        specularColor |-> <<50, 50, 50>>, shininess |-> 4000],
       [tag |-> "PaperHat", diffuseColor |-> <<800, 400, 600>>,
        specularColor |-> <<100, 100, 100>>, shininess |-> 2000],
       [tag |-> "Cake", diffuseColor |-> <<950, 800, 700>>,
        specularColor |-> <<200, 150, 100>>, shininess |-> 8000],
       [tag |-> "Ceramic", diffuseColor |-> <<900, 900, 950>>,
        specularColor |-> <<900, 900, 900>>, shininess |-> 48000] >>

\* the all-zero material: the value of uniforms never written
ZeroMaterial ==
    [diffuseColor |-> Vec3(0), specularColor |-> Vec3(0), shininess |-> 0]

\* What the local `OBJECT_MATERIAL material;` of SetShaderMaterial may hold
\* before FindMaterial fills it: glm leaves the vectors and the float
\* uninitialized, so it is whatever the stack held: zeros, the material a
\* previous call left there, or anything else.
UninitMaterials ==
    {ZeroMaterial, shader.material,
     [diffuseColor |-> <<-1, 7, 7>>, specularColor |-> <<7, -1, 7>>, shininess |-> -1]}

----------------------------------------------------------------------------
(* Lookups *)

\* the while loop of FindTextureID / FindTextureSlot from `index` on:
\* the 0-based index of the first entry with the tag, or -1
RECURSIVE FindTextureIndex(_, _)
FindTextureIndex(tag, index) ==
    IF index < m_loadedTextures
    THEN IF m_textureIDs[index + 1].tag = tag
         THEN index
         ELSE FindTextureIndex(tag, index + 1)
    ELSE -1

FindTextureID(tag) ==
    LET index == FindTextureIndex(tag, 0)
    IN  IF index = -1 THEN -1 ELSE m_textureIDs[index + 1].ID

\* mutant: the lookup hands back the GL name of the entry, not its index
FindTextureSlot_ReturnsHandle(tag) == FindTextureID(tag)

FindTextureSlot(tag) == FindTextureIndex(tag, 0)

\* the while loop of FindMaterial from `index` on: `material` with the
\* properties of the first entry with the tag copied in, or as it came
RECURSIVE FindMaterialFrom(_, _, _)
FindMaterialFrom(tag, material, index) ==
    IF index < Len(m_objectMaterials)
    THEN IF m_objectMaterials[index + 1].tag = tag
         THEN MaterialProps(m_objectMaterials[index + 1])
         ELSE FindMaterialFrom(tag, material, index + 1)
    ELSE material

\* mutant: the loop runs on after a match, so the latest match wins
FindMaterial_LastMatch(tag, material) ==
    LET matches == {i \in 1..Len(m_objectMaterials) : m_objectMaterials[i].tag = tag}
    IN  IF Len(m_objectMaterials) = 0
        THEN [bReturn |-> FALSE, material |-> material]
        ELSE [bReturn |-> TRUE,
              material |->
                 IF matches = {} THEN material
                 ELSE MaterialProps(m_objectMaterials[
                          CHOOSE i \in matches : \A j \in matches : j <= i])]

\* FindMaterial(tag, material&): the return value and the out parameter
FindMaterial(tag, material) ==
    IF Len(m_objectMaterials) = 0
    THEN [bReturn |-> FALSE, material |-> material]
    ELSE [bReturn |-> TRUE, material |-> FindMaterialFrom(tag, material, 0)]

----------------------------------------------------------------------------
(* glm: 4x4 matrices as rows of fixed-point entries *)

\* cos and sin of glm::radians(degrees), in units of 1/FP, for the angles the
\* model uses: the quarter turns exactly, 35 degrees to three decimals
Cos(degrees) ==
    LET d == degrees % 360
    IN  CASE d = 0 -> FP
          [] d = 90 -> 0
          [] d = 180 -> -FP
          [] d = 270 -> 0
          [] d = 35 -> (819 * FP) \div 1000
          [] d = 325 -> (819 * FP) \div 1000

Sin(degrees) ==
    LET d == degrees % 360
    IN  CASE d = 0 -> 0
          [] d = 90 -> FP
          [] d = 180 -> 0
          [] d = 270 -> -FP
          [] d = 35 -> (574 * FP) \div 1000
          [] d = 325 -> -((574 * FP) \div 1000)

\* glm::scale(v)
ScaleMatrix(v) ==
    << <<v[1], 0, 0, 0>>,
       <<0, v[2], 0, 0>>,
       <<0, 0, v[3], 0>>,
       <<0, 0, 0, FP>> >>

\* glm::rotate(glm::radians(degrees), glm::vec3(1, 0, 0))
RotationX(degrees) ==
    LET c == Cos(degrees)
        s == Sin(degrees)
    IN  << <<FP, 0, 0, 0>>,
           <<0, c, -s, 0>>,
           <<0, s, c, 0>>,
           <<0, 0, 0, FP>> >>

\* mutant: the rotation about Y turns the other way, +X towards +Z
RotationY_OtherWay(degrees) ==
    LET c == Cos(degrees)
        s == Sin(degrees)
    IN  << <<c, 0, -s, 0>>,
           <<0, FP, 0, 0>>,
           <<s, 0, c, 0>>,
           <<0, 0, 0, FP>> >>

\* glm::rotate(glm::radians(degrees), glm::vec3(0, 1, 0))
RotationY(degrees) ==
    LET c == Cos(degrees)
        s == Sin(degrees)
    IN  << <<c, 0, s, 0>>,
           <<0, FP, 0, 0>>,
           <<-s, 0, c, 0>>,
           <<0, 0, 0, FP>> >>

\* glm::rotate(glm::radians(degrees), glm::vec3(0, 0, 1))
RotationZ(degrees) ==
    LET c == Cos(degrees)
        s == Sin(degrees)
    IN  << <<c, -s, 0, 0>>,
           <<s, c, 0, 0>>,
           <<0, 0, FP, 0>>,
           <<0, 0, 0, FP>> >>

\* glm::translate(v)
TranslationMatrix(v) ==
    << <<FP, 0, 0, v[1]>>,
       <<0, FP, 0, v[2]>>,
       <<0, 0, FP, v[3]>>,
       <<0, 0, 0, FP>> >>

\* one entry of a matrix product: the rounded sum of four products
Entry(A, B, i, j) ==
    (A[i][1] * B[1][j] + A[i][2] * B[2][j] + A[i][3] * B[3][j] + A[i][4] * B[4][j])
        \div FP

ProductRow(A, B, i) ==
    <<Entry(A, B, i, 1), Entry(A, B, i, 2), Entry(A, B, i, 3), Entry(A, B, i, 4)>>

\* glm::mat4 operator*
MatMul(A, B) ==
    <<ProductRow(A, B, 1), ProductRow(A, B, 2), ProductRow(A, B, 3), ProductRow(A, B, 4)>>

\* one component of a matrix applied to a vector
Component(A, v, i) ==
    (A[i][1] * v[1] + A[i][2] * v[2] + A[i][3] * v[3] + A[i][4] * v[4]) \div FP

\* glm::mat4 * glm::vec4
MatVec(A, v) ==
    <<Component(A, v, 1), Component(A, v, 2), Component(A, v, 3), Component(A, v, 4)>>

ZeroMatrix == <<<<0, 0, 0, 0>>, <<0, 0, 0, 0>>, <<0, 0, 0, 0>>, <<0, 0, 0, 0>>>>

\* mutant: the rotations are multiplied in the order X, Y, Z
ModelView_RotationsXYZ(scaleXYZ, XrotationDegrees, YrotationDegrees, ZrotationDegrees, positionXYZ) ==
    MatMul(MatMul(MatMul(MatMul(TranslationMatrix(positionXYZ),
                                RotationX(XrotationDegrees)),
                         RotationY(YrotationDegrees)),
                  RotationZ(ZrotationDegrees)),
           ScaleMatrix(scaleXYZ))

\* modelView of SetTransformations
ModelView(scaleXYZ, XrotationDegrees, YrotationDegrees, ZrotationDegrees, positionXYZ) ==
    LET scale == ScaleMatrix(scaleXYZ)
        rotationX == RotationX(XrotationDegrees)
        rotationY == RotationY(YrotationDegrees)
        rotationZ == RotationZ(ZrotationDegrees)
        translation == TranslationMatrix(positionXYZ)
    IN  MatMul(MatMul(MatMul(MatMul(translation, rotationZ), rotationY), rotationX), scale)

----------------------------------------------------------------------------
(* The shader program's uniforms and the lights SetupSceneLights writes *)

OffPointLight ==
    [position |-> Vec3(0), ambient |-> Vec3(0), diffuse |-> Vec3(0),
     specular |-> Vec3(0), constant |-> 0, linear |-> 0, quadratic |-> 0,
     bActive |-> FALSE]

NoLights ==
    [pointLights |-> <<OffPointLight, OffPointLight>>,
     directionalLight |->
        [direction |-> Vec3(0), ambient |-> Vec3(0), diffuse |-> Vec3(0),
         specular |-> Vec3(0), bActive |-> FALSE]]

SceneLights ==
    [pointLights |->
        << [position |-> <<0, 8300, 0>>, ambient |-> <<300, 150, 50>>,
            diffuse |-> <<1000, 600, 200>>, specular |-> <<1000, 800, 500>>,
            constant |-> 1000, linear |-> 90, quadratic |-> 32, bActive |-> TRUE],
           [position |-> <<2500, 6000, -2000>>, ambient |-> <<50, 20, 80>>,
            diffuse |-> <<100, 50, 200>>, specular |-> <<100, 100, 200>>,
            constant |-> 1000, linear |-> 140, quadratic |-> 44, bActive |-> TRUE] >>,
     directionalLight |->
        [direction |-> <<-200, -1000, -300>>, ambient |-> <<100, 100, 150>>,
         diffuse |-> <<200, 200, 300>>, specular |-> <<100, 100, 150>>,
         bActive |-> TRUE]]

\* a freshly linked program: every uniform is zero
InitialUniforms ==
    [model |-> ZeroMatrix, objectColor |-> <<0, 0, 0, 0>>, objectTexture |-> 0,
     bUseTexture |-> FALSE, bUseLighting |-> FALSE, UVscale |-> <<0, 0>>,
     material |-> ZeroMaterial, lights |-> NoLights]

MeshKinds == {"Plane", "Sphere", "Cone", "Box", "Cylinder", "Pyramid4"}

\* the record of the last call
Call(op, arg, result, pushed) ==
    [op |-> op, arg |-> arg, result |-> result, pushed |-> pushed]

NoCall == Call("none", "", "", {})

----------------------------------------------------------------------------
(* OpenGL *)

\* glGenTextures(1, &id): a name not in use; drivers hand out the smallest
NewTextureName(used) ==
    CHOOSE n \in 1..(Cardinality(used) + 1) :
        n \notin used /\ \A k \in 1..(n - 1) : k \in used

\* mutant: the active texture unit is never switched, every bind lands on unit 0
BindUnit_AlwaysUnitZero(units, unit, name) ==
    [i \in 1..Max(Len(units), 1) |->
        IF i = 1 THEN name ELSE units[i]]

\* glBindTexture(GL_TEXTURE_2D, name) with `unit` the active texture unit
BindUnit(units, unit, name) ==
    [i \in 1..Max(Len(units), unit + 1) |->
        IF i = unit + 1 THEN name
        ELSE IF i <= Len(units) THEN units[i] ELSE 0]

----------------------------------------------------------------------------
(* SceneManager's methods.  Each is the whole method; the harnesses and the *)
(* scene programs below add the caller's position.                          *)

\* mutant: the new entry goes in at the front of the table
WriteEntry_AtFront(array, index, entry) == <<entry>> \o array

\* m_textureIDs[index] = entry, index 0-based
WriteEntry(array, index, entry) ==
    IF index < Len(array)
    THEN [array EXCEPT ![index + 1] = entry]
    ELSE Append(array, entry)

\* mutant: an image of any channel count is taken
SupportedChannels_Any(colorChannels) == TRUE

\* colorChannels == 3 (RGB) or colorChannels == 4 (RGBA)
SupportedChannels(colorChannels) == colorChannels = 3 \/ colorChannels = 4

\* `image` is what stbi_load returned for the file: 0 for NULL, else the
\* number of colour channels of the decoded image
CreateGLTexture(tag, image) ==
    /\ ~crashed
    /\ UNCHANGED <<m_pShaderManager, m_objectMaterials, shader, meshes, glActive,
                   touched, drawVars>>
    /\ IF image = 0
       THEN /\ ret' = Call("CreateGLTexture", tag, FALSE, {})
            /\ UNCHANGED <<texVars, glTextures, glUnits, crashed>>
       ELSE LET textureID == NewTextureName(glTextures)
            IN  /\ glTextures' = glTextures \cup {textureID}
                /\ IF ~SupportedChannels(image)
                   THEN \* returns with the new texture still bound
                        /\ glUnits' = BindUnit(glUnits, glActive, textureID)
                        /\ ret' = Call("CreateGLTexture", tag, FALSE, {})
                        /\ UNCHANGED <<texVars, crashed>>
                   ELSE /\ glUnits' = BindUnit(glUnits, glActive, 0)
                        /\ IF m_loadedTextures < MaxTextureSlots
                           THEN /\ m_textureIDs' =
                                     WriteEntry(m_textureIDs, m_loadedTextures,
                                                [tag |-> tag, ID |-> textureID])
                                /\ m_loadedTextures' = m_loadedTextures + 1
                                /\ ret' = Call("CreateGLTexture", tag, TRUE, {})
                                /\ UNCHANGED <<overrun, crashed>>
                           ELSE \* a write past the end of the array: undefined
                                \/ /\ crashed' = TRUE
                                   /\ UNCHANGED <<texVars, ret>>
                                \/ /\ m_textureIDs' =
                                         WriteEntry(m_textureIDs, m_loadedTextures,
                                                    [tag |-> tag, ID |-> textureID])
                                   /\ m_loadedTextures' = m_loadedTextures + 1
                                   /\ overrun' = TRUE
                                   /\ ret' = Call("CreateGLTexture", tag, TRUE, {})
                                   /\ UNCHANGED crashed

\* the loop of BindGLTextures from i on
RECURSIVE BindFrom(_, _)
BindFrom(units, i) ==
    IF i < m_loadedTextures
    THEN BindFrom(BindUnit(units, i, m_textureIDs[i + 1].ID), i + 1)
    ELSE units

BindGLTextures ==
    /\ ~crashed
    /\ glUnits' = BindFrom(glUnits, 0)
    /\ glActive' = IF m_loadedTextures > 0 THEN m_loadedTextures - 1 ELSE glActive
    /\ ret' = Call("BindGLTextures", "", "", {})
    /\ UNCHANGED <<m_pShaderManager, texVars, m_objectMaterials, shader, glTextures,
                   meshes, crashed, touched, drawVars>>

\* the loop of DestroyGLTextures from i on: <<array, names in use>>.  Its
\* record keeps the names the table held and the names in use before it.
RECURSIVE DestroyFrom(_, _, _)
DestroyFrom(array, used, i) ==
    IF i < m_loadedTextures
    THEN LET id == NewTextureName(used)
         IN  DestroyFrom([array EXCEPT ![i + 1].ID = id], used \cup {id}, i + 1)
    ELSE <<array, used>>

DestroyGLTextures ==
    /\ ~crashed
    /\ LET after == DestroyFrom(m_textureIDs, glTextures, 0)
       IN  /\ m_textureIDs' = after[1]
           /\ glTextures' = after[2]
    /\ ret' = Call("DestroyGLTextures", "",
                   [held |-> {m_textureIDs[i].ID : i \in 1..Len(m_textureIDs)},
                    before |-> glTextures], {})
    /\ UNCHANGED <<m_pShaderManager, m_loadedTextures, overrun, m_objectMaterials,
                   shader, glUnits, glActive, meshes, crashed, touched, drawVars>>

\* a call of one of the three lookups: the state is left alone
FindTextureIDCall(tag) ==
    /\ ~crashed
    /\ ret' = Call("FindTextureID", tag, FindTextureID(tag), {})
    /\ UNCHANGED <<m_pShaderManager, texVars, m_objectMaterials, shader, glVars,
                   meshes, crashed, touched, drawVars>>

FindTextureSlotCall(tag) ==
    /\ ~crashed
    /\ ret' = Call("FindTextureSlot", tag, FindTextureSlot(tag), {})
    /\ UNCHANGED <<m_pShaderManager, texVars, m_objectMaterials, shader, glVars,
                   meshes, crashed, touched, drawVars>>

FindMaterialCall(tag, material) ==
    /\ ~crashed
    /\ ret' = Call("FindMaterial", tag, FindMaterial(tag, material), {})
    /\ UNCHANGED <<m_pShaderManager, texVars, m_objectMaterials, shader, glVars,
                   meshes, crashed, touched, drawVars>>

SetTransformations(scaleXYZ, XrotationDegrees, YrotationDegrees, ZrotationDegrees, positionXYZ) ==
    LET modelView == ModelView(scaleXYZ, XrotationDegrees, YrotationDegrees,
                               ZrotationDegrees, positionXYZ)
        arg == <<scaleXYZ, XrotationDegrees, YrotationDegrees, ZrotationDegrees,
                 positionXYZ>>
    IN  /\ ~crashed
        /\ IF m_pShaderManager # "NULL"
           THEN /\ shader' = [shader EXCEPT !.model = modelView]
                /\ ret' = Call("SetTransformations", arg, "", {"model"})
           ELSE /\ ret' = Call("SetTransformations", arg, "", {})
                /\ UNCHANGED shader
        /\ touched' = touched \cup {"model"}
        /\ UNCHANGED <<m_pShaderManager, texVars, m_objectMaterials, glVars, meshes,
                       crashed, drawVars>>

\* mutant: the colour is pushed and the use-texture flag is left as it is
PushColor_KeepsTextureFlag(currentColor) ==
    [shader EXCEPT !.objectColor = currentColor]

\* the two pushes of SetShaderColor
PushColor(currentColor) ==
    [shader EXCEPT !.bUseTexture = FALSE, !.objectColor = currentColor]

SetShaderColor(redColorValue, greenColorValue, blueColorValue, alphaValue) ==
    LET currentColor == <<redColorValue, greenColorValue, blueColorValue, alphaValue>>
    IN  /\ ~crashed
        /\ IF m_pShaderManager # "NULL"
           THEN /\ shader' = PushColor(currentColor)
                /\ ret' = Call("SetShaderColor", currentColor, "",
                               {"bUseTexture", "objectColor"})
           ELSE /\ ret' = Call("SetShaderColor", currentColor, "", {})
                /\ UNCHANGED shader
        /\ touched' = touched \cup {"bUseTexture", "objectColor"}
        /\ UNCHANGED <<m_pShaderManager, texVars, m_objectMaterials, glVars, meshes,
                       crashed, drawVars>>

SetShaderTexture(textureTag) ==
    /\ ~crashed
    /\ IF m_pShaderManager # "NULL"
       THEN LET textureID == FindTextureSlot(textureTag)
            IN  /\ shader' = [shader EXCEPT !.bUseTexture = TRUE,
                                            !.objectTexture = textureID]
                /\ ret' = Call("SetShaderTexture", textureTag, "",
                               {"bUseTexture", "objectTexture"})
       ELSE /\ ret' = Call("SetShaderTexture", textureTag, "", {})
            /\ UNCHANGED shader
    /\ touched' = touched \cup {"bUseTexture", "objectTexture"}
    /\ UNCHANGED <<m_pShaderManager, texVars, m_objectMaterials, glVars, meshes,
                   crashed, drawVars>>

SetTextureUVScale(u, v) ==
    /\ ~crashed
    /\ IF m_pShaderManager # "NULL"
       THEN /\ shader' = [shader EXCEPT !.UVscale = <<u, v>>]
            /\ ret' = Call("SetTextureUVScale", <<u, v>>, "", {"UVscale"})
       ELSE /\ ret' = Call("SetTextureUVScale", <<u, v>>, "", {})
            /\ UNCHANGED shader
    /\ touched' = touched \cup {"UVscale"}
    /\ UNCHANGED <<m_pShaderManager, texVars, m_objectMaterials, glVars, meshes,
                   crashed, drawVars>>

\* A call through m_pShaderManager that the method does not guard.  With a
\* null pointer the call is undefined: the process dies, or the call comes
\* back having written nothing.
Unguarded(pushes, call) ==
    IF m_pShaderManager # "NULL"
    THEN /\ shader' = pushes
         /\ ret' = call
         /\ UNCHANGED crashed
    ELSE \/ /\ crashed' = TRUE
            /\ UNCHANGED <<shader, ret>>
         \/ /\ ret' = [call EXCEPT !.pushed = {}]
            /\ UNCHANGED <<shader, crashed>>

MaterialUniforms ==
    {"material.diffuseColor", "material.specularColor", "material.shininess"}

\* mutant: pushing a material also switches texturing off
PushMaterial_ClearsTexture(material) ==
    [shader EXCEPT !.material = material, !.bUseTexture = FALSE]

\* the three pushes of SetShaderMaterial
PushMaterial(material) == [shader EXCEPT !.material = material]

SetShaderMaterial(materialTag) ==
    /\ ~crashed
    /\ touched' = touched \cup {"material"}
    /\ UNCHANGED <<m_pShaderManager, texVars, m_objectMaterials, glVars, meshes,
                   drawVars>>
    /\ IF Len(m_objectMaterials) > 0
       THEN \E uninitialized \in UninitMaterials :
               LET found == FindMaterial(materialTag, uninitialized)
               IN  IF found.bReturn = TRUE
                   THEN Unguarded(PushMaterial(found.material),
                                  Call("SetShaderMaterial", materialTag, "",
                                       MaterialUniforms))
                   ELSE /\ ret' = Call("SetShaderMaterial", materialTag, "", {})
                        /\ UNCHANGED <<shader, crashed>>
       ELSE /\ ret' = Call("SetShaderMaterial", materialTag, "", {})
            /\ UNCHANGED <<shader, crashed>>

DefineObjectMaterials ==
    /\ ~crashed
    /\ m_objectMaterials' = m_objectMaterials \o SceneMaterials
    /\ ret' = Call("DefineObjectMaterials", "", "", {})
    /\ UNCHANGED <<m_pShaderManager, texVars, shader, glVars, meshes, crashed,
                   touched, drawVars>>

SetupSceneLights ==
    /\ ~crashed
    /\ Unguarded([shader EXCEPT !.bUseLighting = TRUE, !.lights = SceneLights],
                 Call("SetupSceneLights", "", "", {"bUseLighting", "lights"}))
    /\ UNCHANGED <<m_pShaderManager, texVars, m_objectMaterials, glVars, meshes,
                   touched, drawVars>>

\* m_basicMeshes->Load<kind>Mesh()
LoadMesh(kind) ==
    /\ ~crashed
    /\ meshes' = [meshes EXCEPT ![kind] = @ + 1]
    /\ ret' = Call("LoadMesh", kind, "", {})
    /\ UNCHANGED <<m_pShaderManager, texVars, m_objectMaterials, shader, glVars,
                   crashed, touched, drawVars>>

\* mutant: a draw call puts the material uniforms back to zero, so the next
\* step inherits no material
DrawMesh_ResetsMaterial(kind) ==
    /\ ~crashed
    /\ drawn' = shader
    /\ shader' = [shader EXCEPT !.material = ZeroMaterial]
    /\ touched' = {}
    /\ draws' = IF draws < 1 THEN draws + 1 ELSE draws
    /\ ret' = Call("DrawMesh", kind,
                   [step |-> touched, previous |-> drawn, nth |-> draws], {})
    /\ UNCHANGED <<m_pShaderManager, texVars, m_objectMaterials, glVars,
                   meshes, crashed>>

\* m_basicMeshes->Draw<kind>Mesh(): the draw call sees the uniforms as they
\* are.  Its record keeps which setters the step called, what the draw call
\* before it saw, and whether there was one.
DrawMesh(kind) ==
    /\ ~crashed
    /\ drawn' = shader
    /\ touched' = {}
    /\ draws' = IF draws < 1 THEN draws + 1 ELSE draws
    /\ ret' = Call("DrawMesh", kind,
                   [step |-> touched, previous |-> drawn, nth |-> draws], {})
    /\ UNCHANGED <<m_pShaderManager, texVars, m_objectMaterials, shader, glVars,
                   meshes, crashed>>

----------------------------------------------------------------------------
(* The state after SceneManager(pShaderManager) *)

Constructed(pShaderManager) ==
    /\ m_pShaderManager = pShaderManager
    /\ m_textureIDs = <<>>
    /\ m_loadedTextures = 0
    /\ m_objectMaterials = <<>>
    /\ shader = InitialUniforms
    /\ glTextures = {}
    /\ glUnits = <<>>
    /\ glActive = 0
    /\ meshes = [k \in MeshKinds |-> 0]
    /\ overrun = FALSE
    /\ crashed = FALSE
    /\ failed = 0
    /\ ret = NoCall
    /\ drawn = InitialUniforms
    /\ touched = {}
    /\ draws = 0

----------------------------------------------------------------------------
(* Render-state harness: a caller that makes the render-state calls in any *)
(* order, over a texture table and a material list it may fill first.      *)

StateTextureTags == {"Floor", "Nope"}
StateMaterialTags == {"Wood", "Glass"}

InitState ==
    /\ \E p \in {"NULL", "shader"} : Constructed(p)
    /\ phase = "calls"
    /\ pc = 0

StateCreateGLTexture ==
    /\ Cardinality(glTextures) < MaxTextureNames
    /\ \E image \in {0, 1, 3} : CreateGLTexture("Floor", image)
    /\ UNCHANGED ctlVars

StateDefineObjectMaterials ==
    /\ Len(m_objectMaterials) = 0
    /\ DefineObjectMaterials
    /\ UNCHANGED ctlVars

StateSetShaderTexture ==
    /\ \E tag \in StateTextureTags : SetShaderTexture(tag)
    /\ UNCHANGED ctlVars

StateSetTextureUVScale ==
    /\ SetTextureUVScale(2500, 2500)
    /\ UNCHANGED ctlVars

StateSetShaderColor ==
    /\ SetShaderColor(600, 100, 100, 1000)
    /\ UNCHANGED ctlVars

StateSetShaderMaterial ==
    /\ \E tag \in StateMaterialTags : SetShaderMaterial(tag)
    /\ UNCHANGED ctlVars

StateDrawMesh ==
    /\ DrawMesh("Box")
    /\ UNCHANGED ctlVars

NextState ==
    \/ StateCreateGLTexture
    \/ StateDefineObjectMaterials
    \/ StateSetShaderTexture
    \/ StateSetTextureUVScale
    \/ StateSetShaderColor
    \/ StateSetShaderMaterial
    \/ StateDrawMesh

SpecState == InitState /\ [][NextState]_vars

----------------------------------------------------------------------------
(* The scene: PrepareScene once, then RenderScene frame after frame *)

Load(filename, tag) == [op |-> "CreateGLTexture", filename |-> filename, tag |-> tag]
Other(op) == [op |-> op]
Upload(kind) == [op |-> "LoadMesh", kind |-> kind]
Transform(scaleXYZ, XrotationDegrees, YrotationDegrees, ZrotationDegrees, positionXYZ) ==
    [op |-> "SetTransformations", scaleXYZ |-> scaleXYZ, X |-> XrotationDegrees,
     Y |-> YrotationDegrees, Z |-> ZrotationDegrees, positionXYZ |-> positionXYZ]
Color(r, g, b, a) == [op |-> "SetShaderColor", r |-> r, g |-> g, b |-> b, a |-> a]
\* mutant: RenderScene loads the texture again where it should look it up
Texture_LoadsAgain(tag) == [op |-> "CreateGLTexture", filename |-> tag, tag |-> tag]
Texture(tag) == [op |-> "SetShaderTexture", tag |-> tag]
UVScale(u, v) == [op |-> "SetTextureUVScale", u |-> u, v |-> v]
Material(tag) == [op |-> "SetShaderMaterial", tag |-> tag]
Draw(kind) == [op |-> "DrawMesh", kind |-> kind]

\* LoadSceneTextures, in statement order
LoadSceneTexturesProgram ==
    << Load("textures/Party_hat.jpg", "Party"),
       Load("textures/blue_party.jpg", "Blue"),
       Load("textures/Check_floor.jpg", "Floor"),
       Load("textures/table.jpg", "Table"),
       Load("textures/Plate.jpg", "Plate"),
       Load("textures/top_frosting.png", "Frost"),
       Load("textures/frosting_sides.png", "Frost_sides"),
       Load("textures/Purple_balloon.png", "balloon"),
       Load("textures/red_present.jpg", "present"),
       Other("BindGLTextures") >>

\* PrepareScene, with LoadSceneTextures inlined
PrepareProgram ==
    LoadSceneTexturesProgram \o
    << Other("SetupSceneLights"),
       Other("DefineObjectMaterials"),
       Upload("Plane"), Upload("Sphere"), Upload("Cone"),
       Upload("Box"), Upload("Cylinder"), Upload("Pyramid4") >>

\* mutant: SetTransformations is not called inside the loop
Leg_NoTransform(pos) ==
    << Texture("Table"), UVScale(1000, 1000), Material("Wood"), Draw("Box") >>

\* one table leg: an iteration of the loop over legPositions
Leg(pos) ==
    << Transform(<<300, 4000, 300>>, 0, 0, 0, pos),
       Texture("Table"), UVScale(1000, 1000), Material("Wood"), Draw("Box") >>

\* RenderScene, in statement order, the leg loop unrolled
RenderProgram ==
    << \* floor plane
       Transform(<<20000, 1000, 10000>>, 0, 0, 0, <<0, 0, 0>>),
       Texture("Floor"), UVScale(2500, 2500), Material("Ceramic"), Draw("Plane"),
       \* party hat
       Transform(<<1000, 2250, 1000>>, 0, 0, 0, <<5000, 4360, -1500>>),
       Texture("Party"), UVScale(1000, 1000), Material("PaperHat"), Draw("Cone"),
       \* top of the party hat
       Transform(<<250, 250, 250>>, 0, 0, 0, <<5000, 6800, -1500>>),
       Texture("Blue"), UVScale(1000, 1000), Material("PaperHat"), Draw("Sphere"),
       \* napkin
       Transform(<<5000, 10, 5000>>, 0, 35, 0, <<5000, 4330, -1500>>),
       Texture("Blue"), UVScale(1000, 1000), Draw("Box"),
       \* table top
       Transform(<<19000, 500, 10000>>, 0, 0, 0, <<0, 4000, 0>>),
       Texture("Table"), UVScale(3000, 3000), Material("Wood"), Draw("Box") >>
    \o Leg(<<-9200, 2000, -4700>>) \o Leg(<<9200, 2000, -4700>>)
    \o Leg(<<-9200, 2000, 4700>>) \o Leg(<<9200, 2000, 4700>>) \o
    << \* present
       Transform(<<3000, 3000, 3000>>, 0, -35, 0, <<-6000, 5760, -2000>>),
       Color(600, 100, 100, 1000), Texture("present"), UVScale(200, 500),
       Material("WrappingPaper"), Draw("Box"),
       \* balloon
       Transform(<<2000, 2500, 2000>>, 0, 0, 0, <<4000, 12000, -4000>>),
       Material("Balloon"), Texture("balloon"), UVScale(1000, 1000), Draw("Sphere"),
       \* balloon knot
       Transform(<<300, 300, 300>>, 0, 0, 0, <<4000, 9450, -4000>>),
       Texture("balloon"), UVScale(1000, 1000), Material("Balloon"), Draw("Pyramid4"),
       \* balloon string
       Transform(<<25, 10000, 50>>, 0, 0, 0, <<4000, 4200, -4000>>),
       Color(300, 300, 300, 1000), Draw("Cylinder"),
       \* cake
       Transform(<<3000, 2000, 3000>>, 0, 0, 0, <<0, 4330, 0>>),
       Texture("Frost_sides"), Texture("Cake"), UVScale(1500, 1500), Draw("Cylinder"),
       \* cake top
       Transform(<<3010, 100, 3010>>, 0, 0, 0, <<0, 6180, 0>>),
       Texture("Frost"), Texture("Cake"), UVScale(1000, 1000), Draw("Cylinder"),
       \* plate
       Transform(<<3500, 100, 3500>>, 0, 0, 0, <<0, 4330, 0>>),
       Texture("Plate"), UVScale(1000, 1000), Material("Ceramic"), Draw("Cylinder"),
       \* candle
       Transform(<<100, 2000, 100>>, 0, 0, 0, <<0, 6330, 0>>),
       Color(900, 900, 400, 1000), Material("Candle"), Draw("Cylinder") >>

Program == IF phase = "prepare" THEN PrepareProgram ELSE RenderProgram

\* the statement the scene is at
Stmt == Program[pc]

At(op) == phase \in {"prepare", "render"} /\ Stmt.op = op

\* on to the next statement; RenderScene follows PrepareScene and itself
Advance ==
    IF pc < Len(Program)
    THEN pc' = pc + 1 /\ phase' = phase
    ELSE pc' = 1 /\ phase' = "render"

\* what stbi_load may return for a file: NULL (0) or an image of 1 to 4 channels
Images == 0..4

Init ==
    /\ \E p \in {"NULL", "shader"} : Constructed(p)
    /\ phase = "prepare"
    /\ pc = 1

SceneCreateGLTexture ==
    /\ At("CreateGLTexture")
    /\ \E image \in Images :
          /\ image \in {3, 4} \/ failed < MaxFailedLoads
          /\ CreateGLTexture(Stmt.tag, image)
          /\ failed' = IF image \in {3, 4} THEN failed ELSE failed + 1
    /\ Advance

SceneBindGLTextures ==
    /\ At("BindGLTextures")
    /\ BindGLTextures
    /\ Advance
    /\ UNCHANGED failed

SceneSetupSceneLights ==
    /\ At("SetupSceneLights")
    /\ SetupSceneLights
    /\ Advance
    /\ UNCHANGED failed

SceneDefineObjectMaterials ==
    /\ At("DefineObjectMaterials")
    /\ DefineObjectMaterials
    /\ Advance
    /\ UNCHANGED failed

SceneLoadMesh ==
    /\ At("LoadMesh")
    /\ LoadMesh(Stmt.kind)
    /\ Advance
    /\ UNCHANGED failed

SceneSetTransformations ==
    /\ At("SetTransformations")
    /\ SetTransformations(Stmt.scaleXYZ, Stmt.X, Stmt.Y, Stmt.Z, Stmt.positionXYZ)
    /\ Advance
    /\ UNCHANGED failed

SceneSetShaderColor ==
    /\ At("SetShaderColor")
    /\ SetShaderColor(Stmt.r, Stmt.g, Stmt.b, Stmt.a)
    /\ Advance
    /\ UNCHANGED failed

SceneSetShaderTexture ==
    /\ At("SetShaderTexture")
    /\ SetShaderTexture(Stmt.tag)
    /\ Advance
    /\ UNCHANGED failed

SceneSetTextureUVScale ==
    /\ At("SetTextureUVScale")
    /\ SetTextureUVScale(Stmt.u, Stmt.v)
    /\ Advance
    /\ UNCHANGED failed

SceneSetShaderMaterial ==
    /\ At("SetShaderMaterial")
    /\ SetShaderMaterial(Stmt.tag)
    /\ Advance
    /\ UNCHANGED failed

SceneDrawMesh ==
    /\ At("DrawMesh")
    /\ DrawMesh(Stmt.kind)
    /\ Advance
    /\ UNCHANGED failed

Next ==
    \/ SceneCreateGLTexture
    \/ SceneBindGLTextures
    \/ SceneSetupSceneLights
    \/ SceneDefineObjectMaterials
    \/ SceneLoadMesh
    \/ SceneSetTransformations
    \/ SceneSetShaderColor
    \/ SceneSetShaderTexture
    \/ SceneSetTextureUVScale
    \/ SceneSetShaderMaterial
    \/ SceneDrawMesh

Spec == Init /\ [][Next]_vars

----------------------------------------------------------------------------
(* Capacity harness: a caller that loads one texture after another, each   *)
(* under a tag of its own, past the sixteen slots.                         *)

CapTags ==
    << "Party", "Blue", "Floor", "Table", "Plate", "Frost", "Frost_sides",
       "balloon", "present", "T10", "T11", "T12", "T13", "T14", "T15", "T16",
       "T17", "T18", "T19", "T20" >>

InitCap ==
    /\ Constructed("shader")
    /\ phase = "loads"
    /\ pc = 0

\* pc counts the CreateGLTexture calls made, failed those that did not load
CapCreateGLTexture ==
    /\ pc < MaxTextureSlots + 2
    /\ \E image \in Images :
          /\ image \in {3, 4} \/ failed < MaxFailedLoads
          /\ CreateGLTexture(CapTags[pc + 1], image)
          /\ failed' = IF image \in {3, 4} THEN failed ELSE failed + 1
    /\ pc' = pc + 1
    /\ phase' = phase

NextCap == CapCreateGLTexture

SpecCap == InitCap /\ [][NextCap]_vars

----------------------------------------------------------------------------
(* Texture harness: loads under repeated tags, lookups and the teardown,   *)
(* over an empty table or one that fifteen loads have filled.              *)

TexTags == {"Floor", "Table"}
TexLookupTags == TexTags \cup {"Nope"}

\* the state after construction (n = 0), or after n CreateGLTexture calls
\* that all loaded, under the first n tags of CapTags
InitTex ==
    /\ \E n \in {0, MaxTextureSlots - 1} :
          /\ m_pShaderManager = "shader"
          /\ m_textureIDs = [i \in 1..n |-> [tag |-> CapTags[i], ID |-> i]]
          /\ m_loadedTextures = n
          /\ glTextures = 1..n
          /\ glUnits = IF n = 0 THEN <<>> ELSE <<0>>
          /\ ret = IF n = 0 THEN NoCall ELSE Call("CreateGLTexture", CapTags[n], TRUE, {})
          /\ pc = n
    /\ m_objectMaterials = <<>>
    /\ shader = InitialUniforms
    /\ glActive = 0
    /\ meshes = [k \in MeshKinds |-> 0]
    /\ overrun = FALSE
    /\ crashed = FALSE
    /\ failed = 0
    /\ drawn = InitialUniforms
    /\ touched = {}
    /\ draws = 0
    /\ phase = "calls"

\* pc counts the CreateGLTexture calls made since construction
TexCreateGLTexture ==
    /\ phase = "calls"
    /\ \/ pc < MaxTexCalls
       \/ pc >= MaxTextureSlots - 1 /\ pc < MaxTextureSlots - 1 + MaxTexCalls
    /\ \E tag \in TexTags, image \in {0, 2, 3} :
          /\ CreateGLTexture(tag, image)
          /\ failed' = IF image \in {3, 4} THEN failed ELSE failed + 1
    /\ pc' = pc + 1
    /\ phase' = phase

TexFindTextureSlot ==
    /\ \E tag \in TexLookupTags : FindTextureSlotCall(tag)
    /\ UNCHANGED ctlVars

TexFindTextureID ==
    /\ \E tag \in TexLookupTags : FindTextureIDCall(tag)
    /\ UNCHANGED ctlVars

TexDestroyGLTextures ==
    /\ phase = "calls"
    /\ DestroyGLTextures
    /\ phase' = "destroyed"
    /\ UNCHANGED <<pc, failed>>

NextTex ==
    \/ TexCreateGLTexture
    \/ TexFindTextureSlot
    \/ TexFindTextureID
    \/ TexDestroyGLTextures

SpecTex == InitTex /\ [][NextTex]_vars

----------------------------------------------------------------------------
(* Lookup harness: the three lookups as functions of the tables.  The      *)
(* tables are drawn from every texture table of up to MaxEntries entries   *)
(* over two tags, each entry with a GL name of its own, and every material *)
(* list of up to MaxEntries entries over two tags and two property sets.   *)

FindTextureTags == {"Floor", "Table"}
FindMaterialTags == {"Wood", "Cake"}
FindMaterialChoices ==
    {[tag |-> t, diffuseColor |-> m.diffuseColor, specularColor |-> m.specularColor,
      shininess |-> m.shininess] :
        t \in FindMaterialTags, m \in {SceneMaterials[4], SceneMaterials[6]}}

InitFind ==
    /\ \E n \in 0..MaxEntries :
          /\ \E tags \in [1..n -> FindTextureTags] :
                m_textureIDs = [i \in 1..n |-> [tag |-> tags[i], ID |-> 2 * i]]
          /\ m_loadedTextures = n
          /\ glTextures = 1..(2 * n)
          /\ glUnits = IF n = 0 THEN <<>> ELSE <<0>>
    /\ \E n \in 0..MaxEntries : m_objectMaterials \in [1..n -> FindMaterialChoices]
    /\ m_pShaderManager = "shader"
    /\ shader = InitialUniforms
    /\ glActive = 0
    /\ meshes = [k \in MeshKinds |-> 0]
    /\ overrun = FALSE
    /\ crashed = FALSE
    /\ failed = 0
    /\ ret = NoCall
    /\ drawn = InitialUniforms
    /\ touched = {}
    /\ draws = 0
    /\ phase = "lookups"
    /\ pc = 0

FindFindTextureSlot ==
    /\ \E tag \in FindTextureTags \cup {"Nope"} : FindTextureSlotCall(tag)
    /\ UNCHANGED ctlVars

FindFindTextureID ==
    /\ \E tag \in FindTextureTags \cup {"Nope"} : FindTextureIDCall(tag)
    /\ UNCHANGED ctlVars

FindFindMaterial ==
    /\ \E tag \in FindMaterialTags \cup {"Glass"}, material \in UninitMaterials :
          FindMaterialCall(tag, material)
    /\ UNCHANGED ctlVars

NextFind ==
    \/ FindFindTextureSlot
    \/ FindFindTextureID
    \/ FindFindMaterial

SpecFind == InitFind /\ [][NextFind]_vars

----------------------------------------------------------------------------
(* Transform harness: SetTransformations over whole-number scales and      *)
(* translations and quarter-turn rotations, where the fixed-point          *)
(* arithmetic is exact.                                                    *)

XformScales == {<<2 * FP, FP, FP>>, <<FP, FP, FP>>, <<2 * FP, 3 * FP, 5 * FP>>}
XformAngles == {0, 90, 180, -90}
XformPositions == {<<0, 0, 0>>, <<0, 0, 5 * FP>>, <<FP, 2 * FP, 3 * FP>>}

InitXform ==
    /\ \E p \in {"NULL", "shader"} : Constructed(p)
    /\ phase = "transforms"
    /\ pc = 0

XformSetTransformations ==
    /\ \E scaleXYZ \in XformScales, x \in XformAngles, y \in XformAngles,
          z \in XformAngles, positionXYZ \in XformPositions :
          SetTransformations(scaleXYZ, x, y, z, positionXYZ)
    /\ UNCHANGED ctlVars

NextXform == XformSetTransformations

SpecXform == InitXform /\ [][NextXform]_vars

----------------------------------------------------------------------------
(* What the claims speak of *)

RenderFields == {"bUseTexture", "objectTexture", "UVscale", "objectColor", "material"}

\* the 0-based indices of the texture entries with the tag
TextureMatches(tag) ==
    {i \in 0..(m_loadedTextures - 1) : m_textureIDs[i + 1].tag = tag}

\* the smallest such index, or -1
FirstTextureMatch(tag) ==
    IF TextureMatches(tag) = {}
    THEN -1
    ELSE CHOOSE i \in TextureMatches(tag) : \A j \in TextureMatches(tag) : i <= j

MaterialMatches(tag) ==
    {i \in 1..Len(m_objectMaterials) : m_objectMaterials[i].tag = tag}

WoodProps == MaterialProps(SceneMaterials[4])

----------------------------------------------------------------------------
(* C1 *)

\* C1 (as claimed): a SetShaderMaterial call whose tag no material has - the
\* list being empty or not - pushes none of the three material uniforms and
\* leaves the material the shader holds as it was, and FindMaterial returns
\* false for such a tag.
C1_AbsentTagPushesNothing ==
    (ret.op = "SetShaderMaterial" /\ MaterialMatches(ret.arg) = {})
        => /\ ret.pushed = {}
           /\ FindMaterial(ret.arg, ZeroMaterial).bReturn = FALSE

----------------------------------------------------------------------------
(* C2 *)

\* C2 (as claimed): the table never holds more than 16 entries: whatever
\* CreateGLTexture calls were made, the entry count is at most 16, nothing
\* was written at index 16 or beyond, and the call that finds the table full
\* returns instead of ending the process.
C2_AtMostSixteenEntries ==
    /\ m_loadedTextures <= MaxTextureSlots
    /\ Len(m_textureIDs) <= MaxTextureSlots
    /\ ~overrun
    /\ ~crashed

----------------------------------------------------------------------------
(* C3 *)

\* the scene is at a CreateGLTexture whose file does not load: stbi_load
\* returns NULL or an image of 1 or 2 channels
C3_LoadFails == At("CreateGLTexture") /\ failed' > failed

C3_LoadSucceeds == At("CreateGLTexture") /\ failed' = failed /\ ~crashed'

\* C3: a CreateGLTexture whose image does not decode, or has a channel
\* count other than 3 and 4, returns false and leaves the entry count and
\* every entry as they were, and LoadSceneTextures goes on to its next
\* statement; a load that succeeds takes the next free slot whatever failed
\* before it; so after the nine loads the table holds one entry per file
\* that loaded, and the tag of a failed load is in no entry.
C3_FailedLoadIsSkipped ==
    /\ [][C3_LoadFails =>
            /\ m_textureIDs' = m_textureIDs
            /\ m_loadedTextures' = m_loadedTextures
            /\ ret'.op = "CreateGLTexture"
            /\ ret'.arg = Stmt.tag
            /\ ret'.result = FALSE
            /\ ~crashed'
            /\ phase' = "prepare"
            /\ pc' = pc + 1]_vars
    /\ [][C3_LoadSucceeds =>
            /\ m_loadedTextures' = m_loadedTextures + 1
            /\ Len(m_textureIDs') = m_loadedTextures'
            /\ m_textureIDs'[m_loadedTextures'].tag = Stmt.tag
            /\ \A i \in 1..m_loadedTextures : m_textureIDs'[i] = m_textureIDs[i]
            /\ pc' = pc + 1]_vars
    /\ []((ret.op = "CreateGLTexture" /\ ret.result = FALSE)
            => FirstTextureMatch(ret.arg) = -1)
    /\ [](phase = "render" => m_loadedTextures = 9 - failed)

\* the first file did not load and the second took slot 0
C3_Witness ==
    /\ phase = "render"
    /\ failed = 1
    /\ m_loadedTextures = 8
    /\ FirstTextureMatch("Party") = -1
    /\ FirstTextureMatch("Blue") = 0
    /\ FirstTextureMatch("present") = 7

----------------------------------------------------------------------------
(* C4 *)

\* C4: at every draw call after the first, each render-state field for
\* which the step called no setter has the value the previous draw call saw;
\* so a step that only calls SetShaderMaterial("Wood"), after a step that
\* drew with texture "Floor" and UV scale (2.5, 2.5), draws with use-texture
\* on, the sampler at the slot of "Floor" and UV scale (2.5, 2.5).
C4_UnsetFieldsInherited ==
    (ret.op = "DrawMesh" /\ ret.result.nth > 0)
        => /\ \A f \in RenderFields \ ret.result.step :
                 drawn[f] = ret.result.previous[f]
           /\ ( /\ ret.result.step = {"material"}
                /\ ret.result.previous.bUseTexture = TRUE
                /\ ret.result.previous.objectTexture = FirstTextureMatch("Floor")
                /\ ret.result.previous.UVscale = <<2500, 2500>> )
              => /\ drawn.bUseTexture = TRUE
                 /\ drawn.objectTexture = FirstTextureMatch("Floor")
                 /\ drawn.UVscale = <<2500, 2500>>

\* a draw of a step that set only the material, to "Wood", and inherited
\* texture "Floor" and UV scale (2.5, 2.5) from the step before
C4_Witness ==
    /\ ret.op = "DrawMesh"
    /\ ret.result.nth > 0
    /\ ret.result.step = {"material"}
    /\ ret.result.previous.material # WoodProps
    /\ drawn.material = WoodProps
    /\ FirstTextureMatch("Floor") = 0
    /\ drawn.bUseTexture = TRUE
    /\ drawn.objectTexture = 0
    /\ drawn.UVscale = <<2500, 2500>>

----------------------------------------------------------------------------
(* C5 *)

\* C5: after SetShaderTexture(tag) on a non-null shader interface the
\* use-texture flag is on and the sampler uniform holds the index of the
\* first entry with the tag, -1 when there is none; the call does not end
\* the process and a draw call can follow.
C5_TexturePushesSlot ==
    (ret.op = "SetShaderTexture" /\ m_pShaderManager # "NULL")
        => /\ shader.bUseTexture = TRUE
           /\ shader.objectTexture = FirstTextureMatch(ret.arg)
           /\ ret.pushed = {"bUseTexture", "objectTexture"}
           /\ ~crashed
           /\ ENABLED StateDrawMesh

\* a draw issued with the sentinel -1 in the sampler, over a table that
\* holds a texture under another tag
C5_Witness ==
    /\ ret.op = "DrawMesh"
    /\ ret.result.step = {"bUseTexture", "objectTexture"}
    /\ m_loadedTextures > 0
    /\ FirstTextureMatch("Nope") = -1
    /\ drawn.bUseTexture = TRUE
    /\ drawn.objectTexture = -1

----------------------------------------------------------------------------
(* C6 *)

\* the GL names the entries hold
HeldNames == {m_textureIDs[i].ID : i \in 1..Len(m_textureIDs)}

\* C6 (as claimed): after a CreateGLTexture(tag) that returned true,
\* FindTextureSlot(tag) is the slot this load was given, the last one, and
\* FindTextureID(tag) is the GL name this load stored there.
C6_LookupReturnsThisLoad ==
    (ret.op = "CreateGLTexture" /\ ret.result = TRUE)
        => /\ FindTextureSlot(ret.arg) = m_loadedTextures - 1
           /\ FindTextureID(ret.arg) = m_textureIDs[m_loadedTextures].ID

\* C6 (amended): the entry count is the number of loads that succeeded (pc
\* counts the calls, failed those that returned false) and
\* the entries sit at slots 0, 1, 2, ... in call order; a CreateGLTexture(tag)
\* that returned true has put the tag, with a GL name no other entry holds,
\* at the last slot; FindTextureSlot(tag) and FindTextureID(tag) then return
\* the slot and the name of one and the same entry, the earliest with the
\* tag, which is the entry of this load exactly when no earlier entry has
\* the tag.
C6_LookupReturnsEarliestLoad ==
    /\ Len(m_textureIDs) = m_loadedTextures
    /\ ~crashed => m_loadedTextures = pc - failed
    /\ (ret.op = "CreateGLTexture" /\ ret.result = TRUE)
        => LET last == m_loadedTextures - 1
               slot == FindTextureSlot(ret.arg)
           IN  /\ m_textureIDs[last + 1].tag = ret.arg
               /\ m_textureIDs[last + 1].ID \in glTextures
               /\ \A i \in 1..last : m_textureIDs[i].ID # m_textureIDs[last + 1].ID
               /\ slot = FirstTextureMatch(ret.arg)
               /\ slot \in 0..last
               /\ FindTextureID(ret.arg) = m_textureIDs[slot + 1].ID
               /\ (slot = last) <=> (TextureMatches(ret.arg) = {last})

\* a second load under a tag the table already has: the lookups return the
\* first load's slot and name
C6_Witness ==
    /\ ret.op = "CreateGLTexture"
    /\ ret.result = TRUE
    /\ ret.arg = "Floor"
    /\ m_loadedTextures = 3
    /\ TextureMatches("Floor") = {0, 2}
    /\ FindTextureSlot("Floor") = 0
    /\ FindTextureID("Floor") = m_textureIDs[1].ID
    /\ FindTextureID("Floor") # m_textureIDs[3].ID

----------------------------------------------------------------------------
(* C7 *)

\* the earliest material with the tag (there is one)
FirstMaterialMatch(tag) ==
    CHOOSE i \in MaterialMatches(tag) : \A j \in MaterialMatches(tag) : i <= j

\* C7: whatever the tables hold, repeated tags included, FindTextureSlot
\* returns the smallest index whose entry has the tag and FindTextureID the
\* GL name of that entry, and each returns -1 exactly when no entry has the
\* tag; FindMaterial, for a tag some material has, hands out the properties
\* of the earliest material with the tag.
C7_FirstMatchWins ==
    /\ ret.op = "FindTextureSlot"
        => /\ ret.result = FirstTextureMatch(ret.arg)
           /\ (ret.result = -1) <=> (TextureMatches(ret.arg) = {})
           /\ ret.result # -1 => m_textureIDs[ret.result + 1].tag = ret.arg
    /\ ret.op = "FindTextureID"
        => /\ (ret.result = -1) <=> (TextureMatches(ret.arg) = {})
           /\ ret.result # -1
                => ret.result = m_textureIDs[FirstTextureMatch(ret.arg) + 1].ID
    /\ (ret.op = "FindMaterial" /\ MaterialMatches(ret.arg) # {})
        => /\ ret.result.bReturn = TRUE
           /\ ret.result.material =
                 MaterialProps(m_objectMaterials[FirstMaterialMatch(ret.arg)])

\* a FindMaterial for a tag defined twice with different properties, over a
\* texture table that has a tag twice as well
C7_Witness ==
    /\ ret.op = "FindMaterial"
    /\ ret.arg = "Wood"
    /\ MaterialMatches("Wood") = {2, 3}
    /\ MaterialProps(m_objectMaterials[2]) # MaterialProps(m_objectMaterials[3])
    /\ ret.result.material = MaterialProps(m_objectMaterials[2])
    /\ TextureMatches("Table") = {1, 2}
    /\ FindTextureSlot("Table") = 1
    /\ FindTextureID("Table") = 4

----------------------------------------------------------------------------
(* C8 *)

\* the five steps as maps of a point <<x, y, z, w>>
ScalePoint(v, p) ==
    <<(v[1] * p[1]) \div FP, (v[2] * p[2]) \div FP, (v[3] * p[3]) \div FP, p[4]>>

\* a turn about X takes +Y towards +Z
RotateXPoint(degrees, p) ==
    <<p[1],
      (Cos(degrees) * p[2] - Sin(degrees) * p[3]) \div FP,
      (Sin(degrees) * p[2] + Cos(degrees) * p[3]) \div FP,
      p[4]>>

\* a turn about Y takes +Z towards +X
RotateYPoint(degrees, p) ==
    <<(Cos(degrees) * p[1] + Sin(degrees) * p[3]) \div FP,
      p[2],
      (Cos(degrees) * p[3] - Sin(degrees) * p[1]) \div FP,
      p[4]>>

\* a turn about Z takes +X towards +Y
RotateZPoint(degrees, p) ==
    <<(Cos(degrees) * p[1] - Sin(degrees) * p[2]) \div FP,
      (Sin(degrees) * p[1] + Cos(degrees) * p[2]) \div FP,
      p[3],
      p[4]>>

TranslatePoint(v, p) ==
    <<p[1] + (v[1] * p[4]) \div FP, p[2] + (v[2] * p[4]) \div FP,
      p[3] + (v[3] * p[4]) \div FP, p[4]>>

\* the origin and the three unit points: an affine map is fixed by them
ProbePoints == {<<0, 0, 0, FP>>, <<FP, 0, 0, FP>>, <<0, FP, 0, FP>>, <<0, 0, FP, FP>>}

\* the orders in which five matrices can be multiplied
Orders5 == {o \in [1..5 -> 1..5] : \A i, j \in 1..5 : o[i] = o[j] => i = j}

\* the product of the matrices taken in the order o
ProductInOrder(ms, o) ==
    MatMul(MatMul(MatMul(MatMul(ms[o[1]], ms[o[2]]), ms[o[3]]), ms[o[4]]), ms[o[5]])

\* a non-uniform scale, a quarter turn about each axis, a translation
C8_Example == <<<<2 * FP, 3 * FP, 5 * FP>>, 90, 90, 90, <<FP, 2 * FP, 3 * FP>>>>

\* C8: SetTransformations on a shader interface pushes "model" and nothing
\* else, and the matrix it pushes takes a point to where scaling it, then
\* turning it about X, then about Y, then about Z, then translating it takes
\* it; for the example, where no two steps can be swapped, the matrix is the
\* product Translation * RotationZ * RotationY * RotationX * Scale and
\* differs from the product of the five matrices in each of the other 119
\* orders.
C8_ScaleRotateXYZTranslate ==
    (ret.op = "SetTransformations" /\ m_pShaderManager # "NULL")
        => LET scaleXYZ == ret.arg[1]
               x == ret.arg[2]
               y == ret.arg[3]
               z == ret.arg[4]
               positionXYZ == ret.arg[5]
               ms == <<TranslationMatrix(positionXYZ), RotationZ(z), RotationY(y),
                       RotationX(x), ScaleMatrix(scaleXYZ)>>
               code == [i \in 1..5 |-> i]
           IN  /\ ret.pushed = {"model"}
               /\ shader.model[4] = <<0, 0, 0, FP>>
               /\ \A p \in ProbePoints :
                     MatVec(shader.model, p) =
                        TranslatePoint(positionXYZ,
                           RotateZPoint(z,
                              RotateYPoint(y,
                                 RotateXPoint(x, ScalePoint(scaleXYZ, p)))))
               /\ ret.arg = C8_Example
                     => \A o \in Orders5 :
                           (ProductInOrder(ms, o) = shader.model) <=> (o = code)

\* the example has been composed and pushed
C8_Witness ==
    /\ ret.op = "SetTransformations"
    /\ m_pShaderManager # "NULL"
    /\ ret.arg = C8_Example
    /\ shader.model = << <<0, 0, 5 * FP, FP>>,
                         <<0, 3 * FP, 0, 2 * FP>>,
                         <<-2 * FP, 0, 0, 3 * FP>>,
                         <<0, 0, 0, FP>> >>
    /\ \E o \in Orders5 : ProductInOrder(
            <<TranslationMatrix(ret.arg[5]), RotationZ(90), RotationY(90),
              RotationX(90), ScaleMatrix(ret.arg[1])>>, o) # shader.model

----------------------------------------------------------------------------
(* C9 *)

\* scale (2,1,1), rotation (0,90,0) degrees, translation (0,0,5)
C9_Input == <<<<2 * FP, FP, FP>>, 0, 90, 0, <<0, 0, 5 * FP>>>>

C9_Composed ==
    ret.op = "SetTransformations" /\ m_pShaderManager # "NULL" /\ ret.arg = C9_Input

\* C9 (as claimed): the matrix pushed for that input maps the local point
\* (1,0,0) to the world point (0,0,5).
C9_MapsToZ5 ==
    C9_Composed => MatVec(shader.model, <<FP, 0, 0, FP>>) = <<0, 0, 5 * FP, FP>>

\* C9 (amended): the matrix pushed for that input maps the local point
\* (1,0,0) to the world point (0,0,3): the scale takes it to (2,0,0), the
\* quarter turn about Y takes +X to -Z, giving (0,0,-2), and the translation
\* adds (0,0,5).
C9_MapsToZ3 ==
    C9_Composed => MatVec(shader.model, <<FP, 0, 0, FP>>) = <<0, 0, 3 * FP, FP>>

\* the input has been composed and pushed
C9_Witness ==
    /\ C9_Composed
    /\ shader.model = << <<0, 0, FP, 0>>,
                         <<0, FP, 0, 0>>,
                         <<-2 * FP, 0, 0, 5 * FP>>,
                         <<0, 0, 0, FP>> >>

----------------------------------------------------------------------------
(* C10 *)

\* C10 (as claimed): when DestroyGLTextures has returned, none of the GL
\* names the table held is still in use, and no name is in use that was not
\* before the call.
C10_DestroyReleasesTextures ==
    ret.op = "DestroyGLTextures"
        => /\ glTextures \cap ret.result.held = {}
           /\ glTextures \subseteq ret.result.before

----------------------------------------------------------------------------
(* What the claims about RenderScene speak of *)

\* the statement of RenderScene the scene executed last
LastPc == IF pc = 1 THEN Len(RenderProgram) ELSE pc - 1

\* the scene has just issued the draw call at statement i of RenderScene
JustDrew(i) == ret.op = "DrawMesh" /\ ~crashed /\ phase = "render" /\ LastPc = i

\* the draw call of the present box: the step that calls SetShaderColor and
\* then SetShaderTexture("present")
PresentDraw ==
    CHOOSE i \in 5..Len(RenderProgram) :
        /\ RenderProgram[i].op = "DrawMesh"
        /\ RenderProgram[i - 4] = Color(600, 100, 100, 1000)
        /\ RenderProgram[i - 3] = Texture("present")

----------------------------------------------------------------------------
(* C11 *)

\* C11: on a non-null shader interface SetShaderColor(r,g,b,a) sets the
\* use-texture flag to false and the flat colour to (r,g,b,a) and leaves
\* every other uniform (sampler, UV scale, material, lighting, model matrix)
\* and both tables as they were; the flag changes in no call other than
\* SetShaderColor and SetShaderTexture, is false after the one and true
\* after the other, and a draw call sees it as it stands; so the present
\* box, whose step calls SetShaderColor and then SetShaderTexture, draws
\* with use-texture = true.
C11_ColorClearsTextureFlag ==
    /\ [][SceneSetShaderColor =>
            /\ m_pShaderManager # "NULL" =>
                  shader' = [shader EXCEPT
                                !.bUseTexture = FALSE,
                                !.objectColor = <<Stmt.r, Stmt.g, Stmt.b, Stmt.a>>]
            /\ m_pShaderManager = "NULL" => shader' = shader
            /\ UNCHANGED <<texVars, m_objectMaterials, glVars, meshes, drawn>>]_vars
    /\ [][shader'.bUseTexture # shader.bUseTexture
            => ret'.op \in {"SetShaderColor", "SetShaderTexture"}]_vars
    /\ []((ret.op = "SetShaderColor" /\ m_pShaderManager # "NULL")
            => shader.bUseTexture = FALSE)
    /\ []((ret.op = "SetShaderTexture" /\ m_pShaderManager # "NULL")
            => shader.bUseTexture = TRUE)
    /\ [][SceneDrawMesh => drawn' = shader]_vars
    /\ []((JustDrew(PresentDraw) /\ m_pShaderManager # "NULL")
            => /\ drawn.bUseTexture = TRUE
               /\ drawn.objectColor = <<600, 100, 100, 1000>>)

\* the present box drawn with texturing on, the sampler at the slot of
\* "present" and the dark red of its SetShaderColor call still held
C11_Witness ==
    /\ JustDrew(PresentDraw)
    /\ m_pShaderManager # "NULL"
    /\ {"objectColor", "objectTexture"} \subseteq ret.result.step
    /\ drawn.bUseTexture = TRUE
    /\ drawn.objectColor = <<600, 100, 100, 1000>>
    /\ drawn.objectTexture = 8
    /\ FirstTextureMatch("present") = 8

----------------------------------------------------------------------------
(* C12 *)

\* the texture table and the material list
SceneTables == <<m_loadedTextures, m_textureIDs, m_objectMaterials>>

\* the calls RenderScene makes
RenderOps ==
    {"SetTransformations", "SetShaderColor", "SetShaderTexture",
     "SetTextureUVScale", "SetShaderMaterial", "DrawMesh"}

\* C12: no statement of RenderScene, in any frame, and none of the calls it
\* makes (SetTransformations, SetShaderColor, SetShaderTexture with its
\* FindTextureSlot, SetTextureUVScale, SetShaderMaterial with its
\* FindMaterial, the draw calls) changes the entry count, a texture entry or
\* a material entry; throughout RenderScene the tables are those PrepareScene
\* left: one texture entry per file that loaded and the seven materials.
C12_TablesReadOnlyInRender ==
    /\ [][phase = "render" => UNCHANGED SceneTables]_vars
    /\ [][ret'.op \in RenderOps => UNCHANGED SceneTables]_vars
    /\ [](phase = "render"
            => /\ m_objectMaterials = SceneMaterials
               /\ Len(m_textureIDs) = m_loadedTextures
               /\ m_loadedTextures = 9 - failed)

\* the second frame has begun, after a first one that made every call of
\* RenderScene, over the nine textures and seven materials
C12_Witness ==
    /\ phase = "render"
    /\ pc = 2
    /\ draws = 1
    /\ ret.op = "SetTransformations"
    /\ m_loadedTextures = 9
    /\ m_textureIDs[3].tag = "Floor"
    /\ m_objectMaterials = SceneMaterials
    /\ drawn.material = MaterialProps(SceneMaterials[1])

----------------------------------------------------------------------------
(* C13 *)

\* no primitive kind has been uploaded
NoMeshes == \A k \in MeshKinds : meshes[k] = 0

\* every registered entry i is bound to texture unit i
EntriesBound ==
    /\ Len(glUnits) >= m_loadedTextures
    /\ \A i \in 0..(m_loadedTextures - 1) : glUnits[i + 1] = m_textureIDs[i + 1].ID

\* C13: PrepareScene loads textures while no light, material or mesh is
\* set up; calls BindGLTextures right after the ninth CreateGLTexture, and
\* the call binds every registered entry i to texture unit i; configures
\* the lights next, before any material is defined; defines the materials
\* next, before any mesh is uploaded; then uploads each primitive kind once.
\* No CreateGLTexture and no second BindGLTextures follows the
\* BindGLTextures call (each needs a CreateGLTexture as the call before
\* it), PrepareScene is not entered again, and from the BindGLTextures call
\* on, at every draw call, entry i is bound to unit i and each of the six
\* primitive kinds has been uploaded exactly once.
C13_PrepareOrderAndBind ==
    /\ [][SceneCreateGLTexture =>
            /\ phase = "prepare"
            /\ ret.op \in {"none", "CreateGLTexture"}
            /\ shader.lights = NoLights
            /\ Len(m_objectMaterials) = 0
            /\ NoMeshes]_vars
    /\ [][SceneBindGLTextures =>
            /\ phase = "prepare"
            /\ ret.op = "CreateGLTexture"
            /\ m_loadedTextures = 9 - failed
            /\ UNCHANGED SceneTables
            /\ EntriesBound']_vars
    /\ [][SceneSetupSceneLights =>
            /\ phase = "prepare"
            /\ ret.op = "BindGLTextures"
            /\ Len(m_objectMaterials) = 0
            /\ NoMeshes]_vars
    /\ [][SceneDefineObjectMaterials =>
            /\ phase = "prepare"
            /\ ret.op = "SetupSceneLights"
            /\ m_pShaderManager # "NULL" => shader.lights = SceneLights
            /\ NoMeshes]_vars
    /\ [][SceneLoadMesh =>
            /\ phase = "prepare"
            /\ ret.op \in {"DefineObjectMaterials", "LoadMesh"}
            /\ m_objectMaterials = SceneMaterials
            /\ meshes[Stmt.kind] = 0]_vars
    /\ [][phase = "render" => phase' = "render"]_vars
    /\ [](ret.op \notin {"none", "CreateGLTexture"} => EntriesBound)
    /\ [](phase = "render" => \A k \in MeshKinds : meshes[k] = 1)
    /\ [](ret.op = "DrawMesh" => phase = "render")

\* a draw call of RenderScene after a PrepareScene in which the first file
\* decoded to an unsupported channel count (its GL name 1 is kept and in no
\* entry): the eight entries hold the names 2..9 and entry i is bound to
\* unit i; every primitive kind was uploaded once
C13_Witness ==
    /\ ret.op = "DrawMesh"
    /\ phase = "render"
    /\ m_loadedTextures = 8
    /\ 1 \in glTextures
    /\ m_textureIDs[1] = [tag |-> "Blue", ID |-> 2]
    /\ m_textureIDs[8] = [tag |-> "present", ID |-> 9]
    /\ glUnits = <<2, 3, 4, 5, 6, 7, 8, 9>>
    /\ \A k \in MeshKinds : meshes[k] = 1

----------------------------------------------------------------------------
(* C14 *)

\* the SetTransformations statement of the step that statement i belongs to
StepStart(i) ==
    CHOOSE j \in 1..i :
        /\ RenderProgram[j].op = "SetTransformations"
        /\ \A k \in (j + 1)..i : RenderProgram[k].op # "SetTransformations"

\* the model matrix that statement composes
StepMatrix(i) ==
    LET t == RenderProgram[StepStart(i)]
    IN  ModelView(t.scaleXYZ, t.X, t.Y, t.Z, t.positionXYZ)

LegMatrix(pos) == ModelView(<<300, 4000, 300>>, 0, 0, 0, pos)

\* C14: in RenderScene SetTransformations is only ever called as the first
\* call after a draw call (or, in the first frame, after PrepareScene), each
\* render-state setter is called after the SetTransformations of its step,
\* and each draw call follows a SetTransformations call made since the
\* previous draw call and is not directly preceded by another draw call: so
\* there is exactly one SetTransformations between two draw calls, ahead of
\* the step's setters.  On a non-null shader interface every draw call,
\* those of the four table legs included, sees the matrix its own step
\* composed, which is not the matrix the previous draw call saw.
C14_OneTransformPerDraw ==
    /\ [][SceneSetTransformations =>
            /\ touched = {}
            /\ ret.op \in {"LoadMesh", "DrawMesh"}]_vars
    /\ [][(\/ SceneSetShaderColor
           \/ SceneSetShaderTexture
           \/ SceneSetTextureUVScale
           \/ SceneSetShaderMaterial) => "model" \in touched]_vars
    /\ [][SceneDrawMesh =>
            /\ "model" \in touched
            /\ ret.op \notin {"DrawMesh", "LoadMesh"}
            /\ touched' = {}]_vars
    /\ []((ret.op = "DrawMesh" /\ ~crashed)
            => /\ "model" \in ret.result.step
               /\ m_pShaderManager # "NULL"
                    => /\ drawn.model = StepMatrix(LastPc)
                       /\ ret.result.nth > 0
                            => drawn.model # ret.result.previous.model)

\* the draw call of the third table leg: it sees the matrix of its own
\* iteration, and the draw call before it saw that of the second leg
C14_Witness ==
    /\ ret.op = "DrawMesh"
    /\ ret.arg = "Box"
    /\ m_pShaderManager # "NULL"
    /\ ret.result.step = {"model", "bUseTexture", "objectTexture", "UVscale", "material"}
    /\ drawn.model = LegMatrix(<<-9200, 2000, 4700>>)
    /\ ret.result.previous.model = LegMatrix(<<9200, 2000, -4700>>)
    /\ drawn.model # ret.result.previous.model

----------------------------------------------------------------------------
(* C15 *)

\* C15 (as claimed): when all nine loads of LoadSceneTextures succeeded,
\* every draw call of RenderScene issued with use-texture = true has a
\* sampler value that is the index of a registered entry, in [0, 9): no
\* draw call is issued with the sentinel -1.
C15_DrawsUseRegisteredSlot ==
    ( /\ ret.op = "DrawMesh"
      /\ phase = "render"
      /\ m_pShaderManager # "NULL"
      /\ failed = 0
      /\ m_loadedTextures = 9
      /\ drawn.bUseTexture = TRUE )
        => /\ drawn.objectTexture \in 0..(m_loadedTextures - 1)
           /\ drawn.objectTexture # -1

----------------------------------------------------------------------------
(* C16 *)

\* the draw call of the step whose SetTransformations statement is t
DrawAfter(t) ==
    CHOOSE i \in 1..Len(RenderProgram) :
        RenderProgram[i].op = "DrawMesh" /\ RenderProgram[StepStart(i)] = t

NapkinDraw == DrawAfter(Transform(<<5000, 10, 5000>>, 0, 35, 0, <<5000, 4330, -1500>>))
StringDraw == DrawAfter(Transform(<<25, 10000, 50>>, 0, 0, 0, <<4000, 4200, -4000>>))
CakeDraw == DrawAfter(Transform(<<3000, 2000, 3000>>, 0, 0, 0, <<0, 4330, 0>>))
CakeTopDraw == DrawAfter(Transform(<<3010, 100, 3010>>, 0, 0, 0, <<0, 6180, 0>>))
CandleDraw == DrawAfter(Transform(<<100, 2000, 100>>, 0, 0, 0, <<0, 6330, 0>>))

\* what DefineObjectMaterials defines under the tag
MaterialNamed(tag) ==
    MaterialProps(SceneMaterials[CHOOSE k \in 1..Len(SceneMaterials) :
                                    SceneMaterials[k].tag = tag])

\* the tag of the latest SetShaderMaterial statement up to statement i
LastMaterialTag(i) ==
    RenderProgram[CHOOSE j \in 1..i :
        /\ RenderProgram[j].op = "SetShaderMaterial"
        /\ \A k \in (j + 1)..i : RenderProgram[k].op # "SetShaderMaterial"].tag

\* C16: on a non-null shader interface every draw call of RenderScene sees
\* the material of the most recent SetShaderMaterial call (each names a
\* defined tag); the steps that call no SetShaderMaterial draw with the
\* material inherited from the step before: the napkin with "PaperHat", the
\* balloon string, the cake side and the cake top with "Balloon"; and the
\* draw calls issued with use-texture = false are exactly those of the
\* balloon string and the candle.
C16_InheritedMaterials ==
    (JustDrew(LastPc) /\ m_pShaderManager # "NULL")
        => /\ drawn.material = MaterialNamed(LastMaterialTag(LastPc))
           /\ ("material" \notin ret.result.step)
                 <=> LastPc \in {NapkinDraw, StringDraw, CakeDraw, CakeTopDraw}
           /\ LastPc = NapkinDraw => drawn.material = MaterialNamed("PaperHat")
           /\ LastPc \in {StringDraw, CakeDraw, CakeTopDraw}
                 => drawn.material = MaterialNamed("Balloon")
           /\ (drawn.bUseTexture = FALSE) <=> LastPc \in {StringDraw, CandleDraw}

\* the cake top drawn in a step that set no material, with the material of
\* the balloon knot three steps earlier still in effect and texturing on
C16_Witness ==
    /\ JustDrew(CakeTopDraw)
    /\ m_pShaderManager # "NULL"
    /\ "material" \notin ret.result.step
    /\ drawn.material = MaterialNamed("Balloon")
    /\ drawn.material # MaterialNamed("Cake")
    /\ ret.result.previous.material = MaterialNamed("Balloon")
    /\ drawn.bUseTexture = TRUE

====
